---- MODULE Spec2Model ----
(***************************************************************************)
(* Model of app.py, the resume parser: one run of main() per uploaded      *)
(* file (extract text, sanitize, one POST to the completion endpoint,      *)
(* clean and decode the answer, render).                                   *)
(*                                                                         *)
(* A text is a sequence of one-character strings.  A decoded JSON value    *)
(* is a tagged record: JNull (Python None), [t |-> "bool", b |-> ..],      *)
(* [t |-> "num", n |-> ..], [t |-> "str", s |-> text],                     *)
(* [t |-> "arr", a |-> sequence of values] and                             *)
(* [t |-> "obj", o |-> sequence of <<key, value>> pairs], the pairs in     *)
(* insertion order with distinct keys, as a Python dict keeps them.        *)
(***************************************************************************)
EXTENDS Integers, Sequences, FiniteSets, TLC

VARIABLES
    pc,               \* position of main(): start, uploaded, extracted,
                      \* sanitized, called, done, fault
    uploaded_file,    \* the st.file_uploader value: NoFile or a PDF
    text,             \* main: text = extract_text_from_pdf(uploaded_file)
    cleaned_text,     \* main: cleaned_text = sanitize_text(text)
    posts,            \* the requests.post calls issued: the user message of each
    response,         \* what the POST met: a transport failure or an HTTP answer
    bodyDecoded,      \* response.json() has been called
    content,          \* call_mistral_api: local content (Unbound until assigned)
    cleaned_content,  \* call_mistral_api: local cleaned_content
    resume_info,      \* main: resume_info = call_mistral_api(prompt)
    ui,               \* the Streamlit elements emitted, in order
    exc               \* the exception that escaped main(), or "none"

vars == <<pc, uploaded_file, text, cleaned_text, posts, response, bodyDecoded,
          content, cleaned_content, resume_info, ui, exc>>

----------------------------------------------------------------------------
(* Bounds of the model.                                                    *)

\* longest text handed to sanitize_text in SpecSanitize
MaxLen == 5
\* longest string value inside a generated JSON answer
MaxValLen == 3
\* longest skill list of a generated skills mapping
MaxItems == 2

----------------------------------------------------------------------------
(* Characters: Python's re classes \s and \w on the characters used here.  *)

SpaceChars == {" ", "\t", "\n", "\r", "\f"}

WordChars ==
    {"a", "b", "c", "d", "e", "f", "g", "h", "i", "j", "k", "l", "m",
     "n", "o", "p", "q", "r", "s", "t", "u", "v", "w", "x", "y", "z",
     "A", "B", "C", "D", "E", "F", "G", "H", "I", "J", "K", "L", "M",
     "N", "O", "P", "Q", "R", "S", "T", "U", "V", "W", "X", "Y", "Z",
     "0", "1", "2", "3", "4", "5", "6", "7", "8", "9", "_"}

\* the literal characters of the class [^\w\s.,@()-]
KeptPunct == {".", ",", "@", "(", ")", "-"}

IsSpace(c) == c \in SpaceChars

RECURSIVE SkipSpaces(_, _)
\* the first index >= i of s that holds no whitespace (Len(s)+1 if none)
SkipSpaces(s, i) ==
    IF i <= Len(s) /\ IsSpace(s[i]) THEN SkipSpaces(s, i + 1) ELSE i

RECURSIVE CollapseFrom(_, _)
CollapseFrom(s, i) ==
    IF i > Len(s) THEN <<>>
    ELSE IF IsSpace(s[i]) THEN <<" ">> \o CollapseFrom(s, SkipSpaces(s, i))
    ELSE <<s[i]>> \o CollapseFrom(s, i + 1)

\* re.sub(r'\s+', ' ', text)
CollapseWhitespace(s) == CollapseFrom(s, 1)

KeepsHash(c) == c \in WordChars \cup SpaceChars \cup KeptPunct \cup {"#"}

\* a character the class [^\w\s.,@()-] does not match
Keeps(c) == c \in WordChars \cup SpaceChars \cup KeptPunct

\* re.sub(r'[^\w\s.,@()-]', '', text)
StripSpecial(s) == SelectSeq(s, Keeps)

RECURSIVE LastNonSpace(_, _)
LastNonSpace(s, j) ==
    IF j >= 1 /\ IsSpace(s[j]) THEN LastNonSpace(s, j - 1) ELSE j

\* str.strip()
Strip(s) ==
    LET i == SkipSpaces(s, 1)
        j == LastNonSpace(s, Len(s))
    IN  IF i > j THEN <<>> ELSE SubSeq(s, i, j)

sanitize_text(t) == Strip(StripSpecial(CollapseWhitespace(t)))

----------------------------------------------------------------------------
(* clean_json_response.                                                    *)

\* text m stands in s at index i
IsAt(s, i, m) ==
    /\ i + Len(m) - 1 <= Len(s)
    /\ SubSeq(s, i, i + Len(m) - 1) = m

\* the first index >= i of s where m stands (0 if none)
NextMatch(s, i, m) ==
    IF \E j \in i..Len(s) : IsAt(s, j, m)
    THEN CHOOSE j \in i..Len(s) :
            IsAt(s, j, m) /\ \A k \in i..(j - 1) : ~IsAt(s, k, m)
    ELSE 0

RECURSIVE RemoveFrom(_, _, _)
\* re.sub(m + r'\s*', '', s) from index i on: leftmost matches, left to
\* right, the text after a match scanned on, the result never rescanned
RemoveFrom(s, i, m) ==
    LET j == NextMatch(s, i, m)
    IN  IF j = 0 THEN SubSeq(s, i, Len(s))
        ELSE SubSeq(s, i, j - 1) \o RemoveFrom(s, SkipSpaces(s, j + Len(m)), m)

\* the backquote character (U+0060), which a TLA+ string cannot hold
Backtick == "BACKTICK"

Fence == <<Backtick, Backtick, Backtick>>
FenceJson == Fence \o <<"j", "s", "o", "n">>

clean_json_response(response_text) ==
    Strip(RemoveFrom(RemoveFrom(response_text, 1, FenceJson), 1, Fence))

----------------------------------------------------------------------------
(* json.loads, on the JSON the model's texts can hold: objects, arrays,    *)
(* strings with the escapes \" \\ \/ \n \t \r \f, integers, null, true,    *)
(* false.  Fractions, exponents, \b, \uXXXX and NaN/Infinity are outside   *)
(* the alphabet of the texts drawn below.                                  *)

JNull == [t |-> "null"]
JBool(b) == [t |-> "bool", b |-> b]
JNum(n) == [t |-> "num", n |-> n]
JStr(s) == [t |-> "str", s |-> s]
JArr(a) == [t |-> "arr", a |-> a]
JObj(o) == [t |-> "obj", o |-> o]

\* dict: d[key] = value, a new key last, an old key keeping its place
DictSet(o, k, v) ==
    IF \E n \in 1..Len(o) : o[n][1] = k
    THEN [n \in 1..Len(o) |-> IF o[n][1] = k THEN <<k, v>> ELSE o[n]]
    ELSE Append(o, <<k, v>>)

DictHas(o, k) == \E n \in 1..Len(o) : o[n][1] = k

DictGet(o, k) == o[CHOOSE n \in 1..Len(o) : o[n][1] = k][2]

JsonWs == {" ", "\t", "\n", "\r"}
ControlChars == {"\t", "\n", "\r", "\f"}
Digits == {"0", "1", "2", "3", "4", "5", "6", "7", "8", "9"}

DigitVal(c) ==
    CASE c = "0" -> 0 [] c = "1" -> 1 [] c = "2" -> 2 [] c = "3" -> 3
      [] c = "4" -> 4 [] c = "5" -> 5 [] c = "6" -> 6 [] c = "7" -> 7
      [] c = "8" -> 8 [] c = "9" -> 9

Unescape(c) ==
    CASE c = "n" -> "\n" [] c = "t" -> "\t" [] c = "r" -> "\r"
      [] c = "f" -> "\f" [] OTHER -> c

ParseFail == [ok |-> FALSE, v |-> JNull, i |-> 0]
ParseOk(v, i) == [ok |-> TRUE, v |-> v, i |-> i]

RECURSIVE SkipWs(_, _)
SkipWs(s, i) == IF i <= Len(s) /\ s[i] \in JsonWs THEN SkipWs(s, i + 1) ELSE i

\* the characters that end a run of plain string characters
StringStops == {"\"", "\\"} \cup ControlChars

\* the first index >= i of s that holds a character of StringStops (0 if none)
NextStop(s, i) ==
    IF \E j \in i..Len(s) : s[j] \in StringStops
    THEN CHOOSE j \in i..Len(s) :
            s[j] \in StringStops /\ \A k \in i..(j - 1) : s[k] \notin StringStops
    ELSE 0

RECURSIVE ScanString(_, _, _)
\* the string whose opening quote stands before index i, acc the characters
\* decoded so far
ScanString(s, i, acc) ==
    LET j == NextStop(s, i)
        run == acc \o SubSeq(s, i, j - 1)
    IN  IF j = 0 THEN ParseFail
        ELSE IF s[j] = "\"" THEN ParseOk(JStr(run), j + 1)
        ELSE IF s[j] = "\\"
        THEN IF j + 1 <= Len(s) /\ s[j + 1] \in {"\"", "\\", "/", "n", "t", "r", "f"}
             THEN ScanString(s, j + 2, Append(run, Unescape(s[j + 1])))
             ELSE ParseFail
        ELSE ParseFail

RECURSIVE ScanDigits(_, _, _)
ScanDigits(s, i, n) ==
    IF i <= Len(s) /\ s[i] \in Digits
    THEN ScanDigits(s, i + 1, 10 * n + DigitVal(s[i]))
    ELSE [n |-> n, i |-> i]

\* an integer: -? (0 | [1-9][0-9]*)
ScanNumber(s, i) ==
    LET neg == s[i] = "-"
        j == IF neg THEN i + 1 ELSE i
    IN  IF j > Len(s) \/ s[j] \notin Digits THEN ParseFail
        ELSE IF s[j] = "0" THEN ParseOk(JNum(0), j + 1)
        ELSE LET d == ScanDigits(s, j, 0)
             IN  ParseOk(JNum(IF neg THEN 0 - d.n ELSE d.n), d.i)

RECURSIVE ParseValue(_, _)
RECURSIVE ParseElems(_, _, _)
RECURSIVE ParseMembers(_, _, _)

\* the value that starts at index i
ParseValue(s, i) ==
    IF i > Len(s) THEN ParseFail
    ELSE IF s[i] = "\"" THEN ScanString(s, i + 1, <<>>)
    ELSE IF s[i] = "{"
    THEN LET j == SkipWs(s, i + 1)
         IN  IF j <= Len(s) /\ s[j] = "}" THEN ParseOk(JObj(<<>>), j + 1)
             ELSE ParseMembers(s, j, <<>>)
    ELSE IF s[i] = "["
    THEN LET j == SkipWs(s, i + 1)
         IN  IF j <= Len(s) /\ s[j] = "]" THEN ParseOk(JArr(<<>>), j + 1)
             ELSE ParseElems(s, j, <<>>)
    ELSE IF s[i] \in Digits \cup {"-"} THEN ScanNumber(s, i)
    ELSE IF IsAt(s, i, <<"n", "u", "l", "l">>) THEN ParseOk(JNull, i + 4)
    ELSE IF IsAt(s, i, <<"t", "r", "u", "e">>) THEN ParseOk(JBool(TRUE), i + 4)
    ELSE IF IsAt(s, i, <<"f", "a", "l", "s", "e">>) THEN ParseOk(JBool(FALSE), i + 5)
    ELSE ParseFail

\* the elements of an array from index i on, acc the ones before
ParseElems(s, i, acc) ==
    LET el == ParseValue(s, i)
    IN  IF ~el.ok THEN ParseFail
        ELSE LET e == SkipWs(s, el.i)
                 acc2 == Append(acc, el.v)
             IN  IF e > Len(s) THEN ParseFail
                 ELSE IF s[e] = "]" THEN ParseOk(JArr(acc2), e + 1)
                 ELSE IF s[e] = "," THEN ParseElems(s, SkipWs(s, e + 1), acc2)
                 ELSE ParseFail

\* the "key": value pairs of an object from index i on, acc the ones before
ParseMembers(s, i, acc) ==
    IF i > Len(s) \/ s[i] # "\"" THEN ParseFail
    ELSE LET k == ScanString(s, i + 1, <<>>)
         IN  IF ~k.ok THEN ParseFail
             ELSE LET c == SkipWs(s, k.i)
                  IN  IF c > Len(s) \/ s[c] # ":" THEN ParseFail
                      ELSE LET val == ParseValue(s, SkipWs(s, c + 1))
                           IN  IF ~val.ok THEN ParseFail
                               ELSE LET acc2 == DictSet(acc, k.v.s, val.v)
                                        e == SkipWs(s, val.i)
                                    IN  IF e > Len(s) THEN ParseFail
                                        ELSE IF s[e] = "}"
                                        THEN ParseOk(JObj(acc2), e + 1)
                                        ELSE IF s[e] = ","
                                        THEN ParseMembers(s, SkipWs(s, e + 1), acc2)
                                        ELSE ParseFail

\* json.loads(s): ok = decoded, else json.JSONDecodeError
json_loads(s) ==
    LET r == ParseValue(s, SkipWs(s, 1))
    IN  IF r.ok /\ SkipWs(s, r.i) > Len(s)
        THEN [ok |-> TRUE, v |-> r.v]
        ELSE [ok |-> FALSE, v |-> JNull]

----------------------------------------------------------------------------
(* Python values: truthiness, dict.get, iteration.                         *)

IsObj(v) == v.t = "obj"

\* bool(v)
Truthy(v) ==
    CASE v.t = "null" -> FALSE
      [] v.t = "bool" -> v.b
      [] v.t = "num" -> v.n # 0
      [] v.t = "str" -> v.s # <<>>
      [] v.t = "arr" -> v.a # <<>>
      [] v.t = "obj" -> v.o # <<>>

\* d.get(key, default), d a dict
Get(d, key, default) == IF DictHas(d.o, key) THEN DictGet(d.o, key) ELSE default

\* iter(v): the items a for loop visits; ok = FALSE is TypeError
Iter(v) ==
    CASE v.t = "arr" -> [ok |-> TRUE, items |-> v.a]
      [] v.t = "str" -> [ok |-> TRUE, items |-> [n \in 1..Len(v.s) |-> JStr(<<v.s[n]>>)]]
      [] v.t = "obj" -> [ok |-> TRUE, items |-> [n \in 1..Len(v.o) |-> JStr(v.o[n][1])]]
      [] OTHER -> [ok |-> FALSE, items |-> <<>>]

\* the keys the renderer reads
k_full_name ==
    <<"f", "u", "l", "l", "_", "n", "a", "m", "e">>
k_email ==
    <<"e", "m", "a", "i", "l">>
k_phone ==
    <<"p", "h", "o", "n", "e">>
k_education ==
    <<"e", "d", "u", "c", "a", "t", "i", "o", "n">>
k_degree ==
    <<"d", "e", "g", "r", "e", "e">>
k_field_of_study ==
    <<"f", "i", "e", "l", "d", "_", "o", "f", "_", "s", "t", "u", "d", "y">>
k_institution ==
    <<"i", "n", "s", "t", "i", "t", "u", "t", "i", "o", "n">>
k_year ==
    <<"y", "e", "a", "r">>
k_work_experience ==
    <<"w", "o", "r", "k", "_", "e", "x", "p", "e", "r", "i", "e", "n", "c",
      "e">>
k_position ==
    <<"p", "o", "s", "i", "t", "i", "o", "n">>
k_company ==
    <<"c", "o", "m", "p", "a", "n", "y">>
k_dates ==
    <<"d", "a", "t", "e", "s">>
k_responsibilities ==
    <<"r", "e", "s", "p", "o", "n", "s", "i", "b", "i", "l", "i", "t", "i",
      "e", "s">>
k_achievements ==
    <<"a", "c", "h", "i", "e", "v", "e", "m", "e", "n", "t", "s">>
k_skills ==
    <<"s", "k", "i", "l", "l", "s">>
k_technical_skills ==
    <<"t", "e", "c", "h", "n", "i", "c", "a", "l", "_", "s", "k", "i", "l",
      "l", "s">>
k_tools_and_software ==
    <<"t", "o", "o", "l", "s", "_", "a", "n", "d", "_", "s", "o", "f", "t",
      "w", "a", "r", "e">>
k_soft_skills ==
    <<"s", "o", "f", "t", "_", "s", "k", "i", "l", "l", "s">>
k_domain_knowledge ==
    <<"d", "o", "m", "a", "i", "n", "_", "k", "n", "o", "w", "l", "e", "d",
      "g", "e">>
k_certifications_and_training ==
    <<"c", "e", "r", "t", "i", "f", "i", "c", "a", "t", "i", "o", "n", "s",
      "_", "a", "n", "d", "_", "t", "r", "a", "i", "n", "i", "n", "g">>
k_management_skills ==
    <<"m", "a", "n", "a", "g", "e", "m", "e", "n", "t", "_", "s", "k", "i",
      "l", "l", "s">>
k_analytics_and_data ==
    <<"a", "n", "a", "l", "y", "t", "i", "c", "s", "_", "a", "n", "d", "_",
      "d", "a", "t", "a">>
k_languages ==
    <<"l", "a", "n", "g", "u", "a", "g", "e", "s">>
k_language ==
    <<"l", "a", "n", "g", "u", "a", "g", "e">>
k_proficiency ==
    <<"p", "r", "o", "f", "i", "c", "i", "e", "n", "c", "y">>
k_certifications ==
    <<"c", "e", "r", "t", "i", "f", "i", "c", "a", "t", "i", "o", "n", "s">>
k_name ==
    <<"n", "a", "m", "e">>
k_issuer ==
    <<"i", "s", "s", "u", "e", "r">>
k_date ==
    <<"d", "a", "t", "e">>

NA == JStr(<<"N", "/", "A">>)
Blank == JStr(<<>>)

----------------------------------------------------------------------------
(* Streamlit elements and the renderers.  An element records the widget,   *)
(* the fixed text of its f-string, the values formatted into it, the       *)
(* column it is placed in (-1: none) and, for a container, its children.   *)
(* A renderer yields the elements it emitted and the exception it raised.  *)

El(w, label, args, col, body) ==
    [w |-> w, label |-> label, args |-> args, col |-> col, body |-> body]

Write(label, args) == El("write", label, args, -1, <<>>)
WriteIn(col, label, args) == El("write", label, args, col, <<>>)
Header(label) == El("header", label, <<>>, -1, <<>>)
Subheader(label) == El("subheader", label, <<>>, -1, <<>>)
Columns == El("columns", "2", <<>>, -1, <<>>)
Expander(label, col, body) == El("expander", label, <<>>, col, body)

Ok(u) == [ui |-> u, exc |-> "none"]
Raise(u, e) == [ui |-> u, exc |-> e]

\* r1; r2  (r2 does not run when r1 raised)
Then(r1, r2) ==
    IF r1.exc # "none" THEN r1
    ELSE [ui |-> r1.ui \o r2.ui, exc |-> r2.exc]

RECURSIVE Chain(_, _)
\* rs[i]; rs[i+1]; ...
Chain(rs, i) == IF i > Len(rs) THEN Ok(<<>>) ELSE Then(rs[i], Chain(rs, i + 1))

\* for x in v: ..   rs[n] is what the body does with the n-th item of v
ForEach(v, rs) ==
    IF ~Iter(v).ok THEN Raise(<<>>, "TypeError") ELSE Chain(rs, 1)

\* with st.expander(label): r   (placed in column col)
InExpander(label, col, r) == [ui |-> <<Expander(label, col, r.ui)>>, exc |-> r.exc]

\* st.write(f"- {x}")
BulletEntry(x) == Ok(<<Write("- {}", <<x>>)>>)

\* for x in v: st.write(f"- {x}")
Bullets(v) ==
    ForEach(v, [n \in 1..Len(Iter(v).items) |-> BulletEntry(Iter(v).items[n])])

\* skill_categories, in the dict's order
skill_categories ==
    << <<k_technical_skills, "Technical Skills">>,
       <<k_tools_and_software, "Tools & Software">>,
       <<k_soft_skills, "Soft Skills">>,
       <<k_domain_knowledge, "Domain Knowledge">>,
       <<k_certifications_and_training, "Certifications & Training">>,
       <<k_management_skills, "Management Skills">>,
       <<k_analytics_and_data, "Analytics & Data">> >>

SkillShownAlways(val) == TRUE

\* if skills.get(key):
SkillShown(val) == Truthy(val)

RECURSIVE SkillLoop(_, _, _)
\* for key, title in skill_categories.items(): from the k-th category on
SkillLoop(skills, k, col_idx) ==
    IF k > Len(skill_categories) THEN Ok(<<>>)
    ELSE LET key == skill_categories[k][1]
             title == skill_categories[k][2]
             val == Get(skills, key, JNull)
         IN  IF SkillShown(val)
             THEN Then(InExpander(title, col_idx, Bullets(val)),
                       SkillLoop(skills, k + 1, (col_idx + 1) % 2))
             ELSE SkillLoop(skills, k + 1, col_idx)

display_skills_section(skills) ==
    IF ~Truthy(skills) THEN Ok(<<>>)
    ELSE Then(Ok(<<Subheader("Skills Analysis"), Columns>>),
              IF ~IsObj(skills) THEN Raise(<<>>, "AttributeError")
              ELSE SkillLoop(skills, 1, 0))

\* one education entry
EducationEntry(edu) ==
    IF ~IsObj(edu) THEN Raise(<<>>, "AttributeError")
    ELSE Ok(<<Write("- **{}** in {}",
                    <<Get(edu, k_degree, Blank), Get(edu, k_field_of_study, Blank)>>),
              Write("  {}, {}",
                    <<Get(edu, k_institution, Blank), Get(edu, k_year, Blank)>>)>>)

\* if exp.get(key): with st.expander(label): for x in exp[key]: st.write(..)
ExpanderList(exp, key, label) ==
    LET val == Get(exp, key, JNull)
    IN  IF Truthy(val) THEN InExpander(label, -1, Bullets(val))
        ELSE Ok(<<>>)

\* one work_experience entry
WorkEntry(exp) ==
    IF ~IsObj(exp) THEN Raise(<<>>, "AttributeError")
    ELSE Then(Ok(<<Write("**{} at {}**",
                         <<Get(exp, k_position, Blank), Get(exp, k_company, Blank)>>),
                   Write("*{}*", <<Get(exp, k_dates, Blank)>>)>>),
              Then(ExpanderList(exp, k_responsibilities, "Responsibilities"),
                   ExpanderList(exp, k_achievements, "Achievements")))

\* one languages entry
LanguageEntry(lang) ==
    IF ~IsObj(lang) THEN Raise(<<>>, "AttributeError")
    ELSE Ok(<<Write("- **{}**: {}",
                    <<Get(lang, k_language, Blank), Get(lang, k_proficiency, Blank)>>)>>)

\* one certifications entry
CertificationEntry(cert) ==
    IF ~IsObj(cert) THEN Raise(<<>>, "AttributeError")
    ELSE Ok(<<Write("- **{}**", <<Get(cert, k_name, Blank)>>),
              Write("  Issued by {} ({})",
                    <<Get(cert, k_issuer, Blank), Get(cert, k_date, Blank)>>)>>)

\* if val: st.subheader(title); for x in val: ..   (val = resume_data.get(key),
\* rs[n] what the loop body does with the n-th item)
Section(val, title, rs) ==
    IF Truthy(val) THEN Then(Ok(<<Subheader(title)>>), ForEach(val, rs))
    ELSE Ok(<<>>)

EducationSection(resume_data) ==
    LET val == Get(resume_data, k_education, JNull)
    IN  Section(val, "Education",
                [n \in 1..Len(Iter(val).items) |-> EducationEntry(Iter(val).items[n])])

WorkSection(resume_data) ==
    LET val == Get(resume_data, k_work_experience, JNull)
    IN  Section(val, "Work Experience",
                [n \in 1..Len(Iter(val).items) |-> WorkEntry(Iter(val).items[n])])

LanguagesSection(resume_data) ==
    LET val == Get(resume_data, k_languages, JNull)
    IN  Section(val, "Languages",
                [n \in 1..Len(Iter(val).items) |-> LanguageEntry(Iter(val).items[n])])

CertificationsSection(resume_data) ==
    LET val == Get(resume_data, k_certifications, JNull)
    IN  Section(val, "Certifications",
                [n \in 1..Len(Iter(val).items) |->
                    CertificationEntry(Iter(val).items[n])])

\* if resume_data.get('skills'): display_skills_section(resume_data['skills'])
SkillsSection(resume_data) ==
    LET val == Get(resume_data, k_skills, JNull)
    IN  IF Truthy(val) THEN display_skills_section(val) ELSE Ok(<<>>)

display_resume_info(resume_data) ==
    IF ~Truthy(resume_data) THEN Ok(<<>>)
    ELSE Then(Ok(<<Header("Resume Information"),
                   Subheader("Personal Information"), Columns>>),
         IF ~IsObj(resume_data) THEN Raise(<<>>, "AttributeError")
         ELSE
         Then(Ok(<<WriteIn(0, "**Name:** {}", <<Get(resume_data, k_full_name, NA)>>),
                   WriteIn(1, "**Email:** {}", <<Get(resume_data, k_email, NA)>>),
                   Write("**Phone:** {}", <<Get(resume_data, k_phone, NA)>>)>>),
         Then(EducationSection(resume_data),
         Then(WorkSection(resume_data),
         Then(SkillsSection(resume_data),
         Then(LanguagesSection(resume_data),
              CertificationsSection(resume_data)))))))

----------------------------------------------------------------------------
(* call_mistral_api.                                                       *)

\* a local that no assignment has reached yet
Unbound == <<"UNBOUND">>

create_prompt(t) ==
    [model |-> "mistral-small-latest", system |-> "resume parser instructions",
     user |-> t, temperature |-> "0.3", max_tokens |-> 1500]

\* response.raise_for_status() raises HTTPError: a 4xx or a 5xx status
RaisesForStatus(status) == 400 <= status /\ status < 600

\* st.error(f"API Request Error: {str(e)}")
ApiErrorReport == <<El("error", "API Request Error: {}", <<>>, -1, <<>>)>>

DecodeErrorReportCleaned(c, cleaned) ==
    <<El("error", "JSON Parsing Error: {}", <<>>, -1, <<>>),
      El("text", "Raw Response:", <<>>, -1, <<>>),
      El("code", "{}", <<JStr(cleaned)>>, -1, <<>>)>>

\* st.error(f"JSON Parsing Error: {str(e)}"); st.text(..); st.code(content)
DecodeErrorReport(c, cleaned) ==
    <<El("error", "JSON Parsing Error: {}", <<>>, -1, <<>>),
      El("text", "Raw Response:", <<>>, -1, <<>>),
      El("code", "{}", <<JStr(c)>>, -1, <<>>)>>

Outcome(ret, u, e, decoded, c, cleaned) ==
    [ret |-> ret, ui |-> u, exc |-> e, decoded |-> decoded,
     content |-> c, cleaned |-> cleaned]

\* What call_mistral_api does when the POST meets r.  jsonErrorIsRequestException:
\* the installed requests raises requests.exceptions.JSONDecodeError (a
\* RequestException) from response.json(); an older one raises the plain
\* json.JSONDecodeError, which the second handler catches with content unbound.
call_mistral_api(r, jsonErrorIsRequestException) ==
    IF r.kind = "transport" \/ RaisesForStatus(r.status)
    THEN Outcome(JNull, ApiErrorReport, "none", FALSE, Unbound, Unbound)
    ELSE IF r.body = "notjson"
    THEN IF jsonErrorIsRequestException
         THEN Outcome(JNull, ApiErrorReport, "none", TRUE, Unbound, Unbound)
         ELSE Outcome(JNull, SubSeq(DecodeErrorReport(Unbound, Unbound), 1, 2),
                      "UnboundLocalError", TRUE, Unbound, Unbound)
    ELSE IF r.body = "nochoices"
    THEN Outcome(JNull, <<>>, "KeyError", TRUE, Unbound, Unbound)
    ELSE LET c == r.open \o r.inner \o r.close
             cleaned == clean_json_response(c)
             d == json_loads(cleaned)
         IN  IF d.ok THEN Outcome(d.v, <<>>, "none", TRUE, c, cleaned)
             ELSE Outcome(JNull, DecodeErrorReport(c, cleaned), "none", TRUE,
                          c, cleaned)

----------------------------------------------------------------------------
(* The inputs: the uploaded PDFs and what the POST can meet.               *)

\* the texts over alphabet S of length at most n
SeqsUpTo(S, n) == UNION {[1..k -> S] : k \in 0..n}

\* the characters of the texts sanitize_text is tried on: a word character,
\* two whitespace characters, a stripped character, a kept punctuation mark
SanChars == {"a", " ", "\n", "#", "-"}

NoFile == [present |-> FALSE, readable |-> FALSE, text |-> <<>>]
Pdf(readable, t) == [present |-> TRUE, readable |-> readable, text |-> t]

\* the PDFs uploaded in Spec: one PyPDF2 cannot read, and two texts
PdfFiles ==
    {Pdf(FALSE, <<>>), Pdf(TRUE, <<"a", " ", "#", " ", "b">>),
     Pdf(TRUE, <<" ", "a", "\n", "\n", "b", "!">>)}

\* message contents the completion endpoint may answer with
\* {"full_name": "A"}
J_full_name ==
    <<"{", "\"", "f", "u", "l", "l", "_", "n", "a", "m", "e", "\"", ":",
      " ", "\"", "A", "\"", "}">>
\* {}
J_empty_obj ==
    <<"{", "}">>
\* null
J_null ==
    <<"n", "u", "l", "l">>
\* 0
J_zero ==
    <<"0">>
\* 1
J_one ==
    <<"1">>
\* []
J_empty_arr ==
    <<"[", "]">>
\* [1]
J_arr ==
    <<"[", "1", "]">>
\* "a"
J_str ==
    <<"\"", "a", "\"">>
\* true
J_true ==
    <<"t", "r", "u", "e">>
\* false
J_false ==
    <<"f", "a", "l", "s", "e">>
\* {"skills": {"soft_skills": ["x", "y"], "technical_skills": ["z"], "tools_and_software": []}}
J_skills ==
    <<"{", "\"", "s", "k", "i", "l", "l", "s", "\"", ":", " ", "{", "\"",
      "s", "o", "f", "t", "_", "s", "k", "i", "l", "l", "s", "\"", ":",
      " ", "[", "\"", "x", "\"", ",", " ", "\"", "y", "\"", "]", ",", " ",
      "\"", "t", "e", "c", "h", "n", "i", "c", "a", "l", "_", "s", "k",
      "i", "l", "l", "s", "\"", ":", " ", "[", "\"", "z", "\"", "]", ",",
      " ", "\"", "t", "o", "o", "l", "s", "_", "a", "n", "d", "_", "s",
      "o", "f", "t", "w", "a", "r", "e", "\"", ":", " ", "[", "]", "}",
      "}">>
\* {"skills": [1]}
J_skills_list ==
    <<"{", "\"", "s", "k", "i", "l", "l", "s", "\"", ":", " ", "[", "1",
      "]", "}">>
\* {"email": "e@x", "education": [{"degree": "x"}], "languages": 1}
J_education ==
    <<"{", "\"", "e", "m", "a", "i", "l", "\"", ":", " ", "\"", "e", "@",
      "x", "\"", ",", " ", "\"", "e", "d", "u", "c", "a", "t", "i", "o",
      "n", "\"", ":", " ", "[", "{", "\"", "d", "e", "g", "r", "e", "e",
      "\"", ":", " ", "\"", "x", "\"", "}", "]", ",", " ", "\"", "l", "a",
      "n", "g", "u", "a", "g", "e", "s", "\"", ":", " ", "1", "}">>
\* {"work_experience": [{"position": "p", "responsibilities": ["r"]}]}
J_work ==
    <<"{", "\"", "w", "o", "r", "k", "_", "e", "x", "p", "e", "r", "i",
      "e", "n", "c", "e", "\"", ":", " ", "[", "{", "\"", "p", "o", "s",
      "i", "t", "i", "o", "n", "\"", ":", " ", "\"", "p", "\"", ",", " ",
      "\"", "r", "e", "s", "p", "o", "n", "s", "i", "b", "i", "l", "i",
      "t", "i", "e", "s", "\"", ":", " ", "[", "\"", "r", "\"", "]", "}",
      "]", "}">>
\* (the empty text)
X_empty == <<>>
\* {
X_brace ==
    <<"{">>
\* x
X_word ==
    <<"x">>
\* {} x
X_trailing ==
    <<"{", "}", " ", "x">>

SampleJson ==
    {J_full_name, J_empty_obj, J_null, J_zero, J_one, J_empty_arr, J_arr, J_str, J_true, J_false, J_skills, J_skills_list, J_education, J_work, X_empty, X_brace, X_word, X_trailing}

\* the characters of a generated string value
ValChars == {"x", Backtick, " "}

\* {"a":"<s>"}
ObjWith(s) == <<"{", "\"", "a", "\"", ":", "\"">> \o s \o <<"\"", "}">>

GeneratedJson == {ObjWith(s) : s \in SeqsUpTo(ValChars, MaxValLen)}

InnerTexts == SampleJson \cup GeneratedJson

\* an opening fence, bare or labelled json, with optional whitespace around
FenceOpens ==
    {FenceJson \o <<"\n">>, Fence \o <<"\n">>, Fence,
     <<" ">> \o FenceJson \o <<" ", "\n">>}

\* a closing fence, with optional whitespace around
FenceCloses == {<<"\n">> \o Fence, Fence, <<"\n">> \o Fence \o <<"\n">>}

NoResponse ==
    [kind |-> "none", err |-> "none", status |-> 0, body |-> "none",
     open |-> <<>>, inner |-> <<>>, close |-> <<>>]

\* requests.post raised: no response
TransportFailures ==
    {[NoResponse EXCEPT !.kind = "transport", !.err = e] :
        e \in {"ConnectionError", "Timeout"}}

Statuses == {200, 201, 304, 404, 500}

\* an answer whose body is a chat completion with message content
\* open \o inner \o close
Completion(status, open, inner, close) ==
    [kind |-> "http", err |-> "none", status |-> status, body |-> "completion",
     open |-> open, inner |-> inner, close |-> close]

\* an answer whose body is not JSON, or is JSON without "choices"
OtherBody(status, body) ==
    [kind |-> "http", err |-> "none", status |-> status, body |-> body,
     open |-> <<>>, inner |-> <<>>, close |-> <<>>]

Responses ==
    TransportFailures
    \cup {OtherBody(st, b) : st \in Statuses, b \in {"notjson", "nochoices"}}
    \cup {Completion(st, o, j, c) : st \in Statuses, o \in FenceOpens \cup {<<>>},
                                    j \in InnerTexts, c \in FenceCloses \cup {<<>>}}

----------------------------------------------------------------------------
(* main.                                                                   *)

\* st.set_page_config, st.title, st.write, st.file_uploader
PageChrome ==
    <<El("title", "Advanced Resume Parser", <<>>, -1, <<>>),
      El("write", "Upload a resume PDF ...", <<>>, -1, <<>>),
      El("file_uploader", "Choose a PDF file", <<>>, -1, <<>>)>>

\* with st.expander("View Raw JSON"): st.json(resume_info)
RawJsonView(v) ==
    Expander("View Raw JSON", -1, <<El("json", "{}", <<v>>, -1, <<>>)>>)

RendersAlways(v) == TRUE

\* if resume_info:
Renders(v) == Truthy(v)

Init ==
    /\ pc = "start"
    /\ uploaded_file = NoFile
    /\ text = Unbound
    /\ cleaned_text = Unbound
    /\ posts = <<>>
    /\ response = NoResponse
    /\ bodyDecoded = FALSE
    /\ content = Unbound
    /\ cleaned_content = Unbound
    /\ resume_info = JNull
    /\ ui = PageChrome
    /\ exc = "none"

\* the user picks a PDF
Upload ==
    /\ pc = "start"
    /\ \E f \in PdfFiles : uploaded_file' = f
    /\ pc' = "uploaded"
    /\ UNCHANGED <<text, cleaned_text, posts, response, bodyDecoded, content,
                   cleaned_content, resume_info, ui, exc>>

\* uploaded_file is None: the script ends after the uploader
NoUpload ==
    /\ pc = "start"
    /\ pc' = "done"
    /\ UNCHANGED <<uploaded_file, text, cleaned_text, posts, response,
                   bodyDecoded, content, cleaned_content, resume_info, ui, exc>>

\* text = extract_text_from_pdf(uploaded_file); PyPDF2's error escapes
ExtractText ==
    /\ pc = "uploaded"
    /\ IF uploaded_file.readable
       THEN text' = uploaded_file.text /\ pc' = "extracted" /\ exc' = exc
       ELSE text' = text /\ pc' = "fault" /\ exc' = "PdfReadError"
    /\ UNCHANGED <<uploaded_file, cleaned_text, posts, response, bodyDecoded,
                   content, cleaned_content, resume_info, ui>>

\* cleaned_text = sanitize_text(text)
Sanitize ==
    /\ pc = "extracted"
    /\ cleaned_text' = sanitize_text(text)
    /\ pc' = "sanitized"
    /\ UNCHANGED <<uploaded_file, text, posts, response, bodyDecoded, content,
                   cleaned_content, resume_info, ui, exc>>

\* prompt = create_prompt(cleaned_text); resume_info = call_mistral_api(prompt),
\* the POST meeting one of rs
CallWith(rs) ==
    /\ pc = "sanitized"
    /\ \E r \in rs, jsonErrorIsRequestException \in BOOLEAN :
         \E out \in {call_mistral_api(r, jsonErrorIsRequestException)} :
             /\ posts' = Append(posts, create_prompt(cleaned_text))
             /\ response' = r
             /\ bodyDecoded' = out.decoded
             /\ content' = out.content
             /\ cleaned_content' = out.cleaned
             /\ resume_info' = out.ret
             /\ ui' = ui \o out.ui
             /\ exc' = out.exc
             /\ pc' = IF out.exc = "none" THEN "called" ELSE "fault"
    /\ UNCHANGED <<uploaded_file, text, cleaned_text>>

CallMistralApi == CallWith(Responses)

\* if resume_info: display_resume_info(resume_info); the raw-JSON expander
Render ==
    /\ pc = "called"
    /\ \E r \in {IF Renders(resume_info) THEN display_resume_info(resume_info)
                 ELSE Ok(<<>>)} :
           /\ ui' = ui \o r.ui
                       \o (IF Renders(resume_info) /\ r.exc = "none"
                           THEN <<RawJsonView(resume_info)>> ELSE <<>>)
           /\ exc' = r.exc
           /\ pc' = IF r.exc = "none" THEN "done" ELSE "fault"
    /\ UNCHANGED <<uploaded_file, text, cleaned_text, posts, response,
                   bodyDecoded, content, cleaned_content, resume_info>>

\* the next interaction: Streamlit runs the script again from the top
Rerun ==
    /\ pc \in {"done", "fault"}
    /\ pc' = "start"
    /\ uploaded_file' = NoFile
    /\ text' = Unbound
    /\ cleaned_text' = Unbound
    /\ posts' = <<>>
    /\ response' = NoResponse
    /\ bodyDecoded' = FALSE
    /\ content' = Unbound
    /\ cleaned_content' = Unbound
    /\ resume_info' = JNull
    /\ ui' = PageChrome
    /\ exc' = "none"

Next ==
    \/ Upload
    \/ NoUpload
    \/ ExtractText
    \/ Sanitize
    \/ CallMistralApi
    \/ Render
    \/ Rerun

Spec == Init /\ [][Next]_vars

----------------------------------------------------------------------------
(* sanitize_text on every text of SanChars up to MaxLen: main() from the   *)
(* state in which the text has just been extracted.                        *)

InitSanitize ==
    /\ pc = "extracted"
    /\ \E t \in SeqsUpTo(SanChars, MaxLen) :
         /\ uploaded_file = Pdf(TRUE, t)
         /\ text = t
    /\ cleaned_text = Unbound
    /\ posts = <<>>
    /\ response = NoResponse
    /\ bodyDecoded = FALSE
    /\ content = Unbound
    /\ cleaned_content = Unbound
    /\ resume_info = JNull
    /\ ui = PageChrome
    /\ exc = "none"

NextSanitize == Sanitize

SpecSanitize == InitSanitize /\ [][NextSanitize]_vars

----------------------------------------------------------------------------
(* Rendering of every skills mapping over the seven categories: main()     *)
(* from the state in which the text has been sanitized, the endpoint       *)
(* answering 200 with a fenced record {"full_name": .., "skills": {..}}.   *)

RECURSIVE Dumps(_)
RECURSIVE DumpsElems(_, _)
RECURSIVE DumpsMembers(_, _)

\* the JSON text of a value built of null, strings, arrays and objects, as
\* the endpoint writes it
Dumps(v) ==
    CASE v.t = "null" -> <<"n", "u", "l", "l">>
      [] v.t = "str" -> <<"\"">> \o v.s \o <<"\"">>
      [] v.t = "arr" -> <<"[">> \o DumpsElems(v.a, 1) \o <<"]">>
      [] v.t = "obj" -> <<"{">> \o DumpsMembers(v.o, 1) \o <<"}">>

DumpsElems(a, i) ==
    IF i > Len(a) THEN <<>>
    ELSE Dumps(a[i]) \o (IF i < Len(a) THEN <<",", " ">> ELSE <<>>)
         \o DumpsElems(a, i + 1)

DumpsMembers(o, i) ==
    IF i > Len(o) THEN <<>>
    ELSE <<"\"">> \o o[i][1] \o <<"\"", ":", " ">> \o Dumps(o[i][2])
         \o (IF i < Len(o) THEN <<",", " ">> ELSE <<>>) \o DumpsMembers(o, i + 1)

Reverse(l) == [n \in 1..Len(l) |-> l[Len(l) + 1 - n]]

\* the skills a list is filled from
SkillItems == <<"x", "y", "z", "w">>

\* the non-empty skill lists: the first 1..MaxItems of SkillItems
ItemLists == {SubSeq(SkillItems, 1, k) : k \in 1..MaxItems}

\* each category absent, present with [], or present with a list
SkillStates == [1..Len(skill_categories) -> {"absent", "empty", "listed"}]

StrList(l) == JArr([n \in 1..Len(l) |-> JStr(<<l[n]>>)])

RECURSIVE SkillPairs(_, _, _)
\* the skills mapping from the k-th category on: odd categories list l,
\* even ones l reversed
SkillPairs(f, l, k) ==
    IF k > Len(skill_categories) THEN <<>>
    ELSE (CASE f[k] = "absent" -> <<>>
            [] f[k] = "empty" -> << <<skill_categories[k][1], JArr(<<>>)>> >>
            [] f[k] = "listed" ->
                 << <<skill_categories[k][1],
                      StrList(IF k % 2 = 1 THEN l ELSE Reverse(l))>> >>)
         \o SkillPairs(f, l, k + 1)

SkillsRecord(f, l) ==
    JObj(<< <<k_full_name, JStr(<<"A">>)>>, <<k_skills, JObj(SkillPairs(f, l, 1))>> >>)

SkillResponses ==
    {Completion(200, FenceJson \o <<"\n">>, Dumps(SkillsRecord(f, l)),
                <<"\n">> \o Fence) : f \in SkillStates, l \in ItemLists}

InitRender ==
    /\ pc = "sanitized"
    /\ uploaded_file = Pdf(TRUE, <<"a">>)
    /\ text = <<"a">>
    /\ cleaned_text = sanitize_text(<<"a">>)
    /\ posts = <<>>
    /\ response = NoResponse
    /\ bodyDecoded = FALSE
    /\ content = Unbound
    /\ cleaned_content = Unbound
    /\ resume_info = JNull
    /\ ui = PageChrome
    /\ exc = "none"

CallSkills == CallWith(SkillResponses)

NextRender ==
    \/ CallSkills
    \/ Render

SpecRender == InitRender /\ [][NextRender]_vars

----------------------------------------------------------------------------
(* The claims.                                                             *)

Range(q) == {q[n] : n \in 1..Len(q)}

IsError(e) == e.w = "error"
IsApiError(e) == e.w = "error" /\ e.label = "API Request Error: {}"

\* an element display_resume_info emits (among those after the page chrome)
IsResumeElement(e) ==
    \/ e.w \in {"header", "subheader", "columns", "write"}
    \/ e.w = "expander" /\ e.label # "View Raw JSON"

IsRawJsonView(e) == e.w = "expander" /\ e.label = "View Raw JSON"

SkillTitles == {skill_categories[k][2] : k \in 1..Len(skill_categories)}
IsSkillExpander(e) == e.w = "expander" /\ e.label \in SkillTitles

\* the POST was answered with a 2xx status
Answered2xx == response.kind = "http" /\ response.status \in 200..299

\* the elements emitted after the page chrome
Emitted == SubSeq(ui, Len(PageChrome) + 1, Len(ui))

\* C1: sanitize_text is idempotent: sanitizing the sanitized text changes
\* nothing, also when a stripped character stood between two whitespace
\* characters.
C1_Idempotent ==
    pc = "sanitized" => sanitize_text(cleaned_text) = cleaned_text

\* C2: every character of sanitize_text's output is a word character, a
\* whitespace character or one of . , @ ( ) - and is either a character of
\* the input or a space standing for a whitespace run of the input.
C2_OnlyAllowedCharacters ==
    pc = "sanitized" =>
        \A n \in 1..Len(cleaned_text) :
            /\ cleaned_text[n] \in WordChars \cup SpaceChars \cup KeptPunct
            /\ \/ cleaned_text[n] \in Range(text)
               \/ cleaned_text[n] = " " /\ Range(text) \cap SpaceChars # {}

\* C2's case: a text with a stripped character and a newline but no space,
\* whose sanitized form holds a space.
C2_Witness ==
    /\ pc = "sanitized"
    /\ "#" \in Range(text)
    /\ "\n" \in Range(text)
    /\ " " \notin Range(text)
    /\ " " \in Range(cleaned_text)

\* C3: for a well-formed JSON text J wrapped in an opening fence (bare or
\* labelled json) and a closing fence, clean_json_response returns exactly
\* J, also when J holds backquotes inside a string value.
C3_FencedJsonReturnedExactly ==
    ( /\ content # Unbound
      /\ response.open \in FenceOpens
      /\ response.close \in FenceCloses
      /\ json_loads(response.inner).ok )
    => cleaned_content = response.inner

\* C4: a 2xx answer whose content is a JSON object wrapped in a json fence
\* makes call_mistral_api return the record the inner text denotes and
\* report no error.
C4_FencedObjectDecoded ==
    ( /\ pc = "called"
      /\ Answered2xx
      /\ response.body = "completion"
      /\ response.open \in {FenceJson \o <<"\n">>, <<" ">> \o FenceJson \o <<" ", "\n">>}
      /\ response.close \in FenceCloses
      /\ json_loads(response.inner).ok
      /\ IsObj(json_loads(response.inner).v) )
    => /\ resume_info = json_loads(response.inner).v
       /\ \A n \in 1..Len(ui) : ~IsError(ui[n])

\* C5: when the POST fails in transport or is answered with a non-2xx
\* status, call_mistral_api reports exactly one API Request Error, returns
\* None, lets no exception escape and never decodes the body.
C5_FailureReportedNoDecode ==
    ( /\ response.kind # "none"
      /\ ~Answered2xx )
    => /\ Len(SelectSeq(ui, IsError)) = 1
       /\ Len(SelectSeq(ui, IsApiError)) = 1
       /\ resume_info = JNull
       /\ exc = "none"
       /\ ~bodyDecoded

\* C6: when the answer is 2xx and the content, fences stripped and trimmed,
\* is not valid JSON, call_mistral_api reports a JSON decode error with the
\* raw content text, returns None, and no exception escapes.
C6_DecodeErrorReported ==
    ( /\ response.kind # "none"
      /\ Answered2xx
      /\ response.body = "completion"
      /\ ~json_loads(clean_json_response(
              response.open \o response.inner \o response.close)).ok )
    => /\ exc = "none"
       /\ pc \in {"called", "done"}
       /\ resume_info = JNull
       /\ Len(Emitted) = 3
       /\ Emitted[1].w = "error" /\ Emitted[1].label = "JSON Parsing Error: {}"
       /\ Emitted[2].w = "text" /\ Emitted[2].label = "Raw Response:"
       /\ Emitted[3].w = "code"
       /\ Emitted[3].args =
              <<JStr(response.open \o response.inner \o response.close)>>

\* C6's case: a fenced content that is not JSON once cleaned, so the raw
\* text differs from the cleaned one, reported.
C6_Witness ==
    /\ pc = "called"
    /\ Answered2xx
    /\ response.open \in FenceOpens
    /\ response.inner = X_brace
    /\ cleaned_content # content
    /\ Len(SelectSeq(ui, IsError)) = 1

\* the list of category k in a skills mapping (<<>> if absent)
ListedItems(skills, k) ==
    IF DictHas(skills.o, skill_categories[k][1])
    THEN DictGet(skills.o, skill_categories[k][1]).a
    ELSE <<>>

\* the categories present with a non-empty list, in the fixed order
RECURSIVE ShownFrom(_, _)
ShownFrom(skills, k) ==
    IF k > Len(skill_categories) THEN <<>>
    ELSE (IF ListedItems(skills, k) # <<>> THEN <<k>> ELSE <<>>)
         \o ShownFrom(skills, k + 1)

\* C7: an empty skills mapping yields no skills-section element at all; for
\* any skills mapping a category that is absent or lists nothing yields no
\* expander, and every category with a non-empty list yields exactly one
\* expander, in the fixed category order, its items in list order.
C7_SkillsRendering ==
    pc = "done" =>
        LET skills == Get(resume_info, k_skills, JNull)
            shown == ShownFrom(skills, 1)
            ex == SelectSeq(Emitted, IsSkillExpander)
        IN  /\ skills.o = <<>> =>
                 /\ \A n \in 1..Len(Emitted) :
                        /\ Emitted[n].label # "Skills Analysis"
                        /\ Emitted[n].w = "expander" => IsRawJsonView(Emitted[n])
                 /\ Len(SelectSeq(Emitted, LAMBDA e : e.w = "columns")) = 1
            /\ Len(ex) = Len(shown)
            /\ \A n \in 1..Len(ex) :
                 /\ ex[n].label = skill_categories[shown[n]][2]
                 /\ Len(ex[n].body) = Len(ListedItems(skills, shown[n]))
                 /\ \A m \in 1..Len(ex[n].body) :
                      /\ ex[n].body[m].w = "write"
                      /\ ex[n].body[m].args = <<ListedItems(skills, shown[n])[m]>>

\* C7's case: a mapping with an absent category, a category listing
\* nothing and two categories listing two items each, rendered.
C7_Witness ==
    /\ pc = "done"
    /\ LET skills == Get(resume_info, k_skills, JNull)
       IN  /\ \E k \in 1..Len(skill_categories) :
                ~DictHas(skills.o, skill_categories[k][1])
           /\ \E k \in 1..Len(skill_categories) :
                /\ DictHas(skills.o, skill_categories[k][1])
                /\ ListedItems(skills, k) = <<>>
           /\ \E k \in 1..Len(skill_categories) :
                /\ k % 2 = 0
                /\ Len(ListedItems(skills, k)) = 2
    /\ Len(SelectSeq(Emitted, IsSkillExpander)) >= 2

C9_SingleSpaces ==
    pc = "sanitized" =>
        /\ cleaned_text # <<>> =>
             ~IsSpace(cleaned_text[1]) /\ ~IsSpace(cleaned_text[Len(cleaned_text)])
        /\ \A n \in 1..Len(cleaned_text) :
             IsSpace(cleaned_text[n]) =>
                 /\ cleaned_text[n] = " "
                 /\ n < Len(cleaned_text) => ~IsSpace(cleaned_text[n + 1])

\* C10: a 2xx answer whose content decodes as JSON ends either with an
\* error message or with the record rendered together with the raw-JSON
\* view, and no exception escapes main.
C10_ErrorOrRendered ==
    ( /\ pc \in {"done", "fault"}
      /\ Answered2xx
      /\ response.body = "completion"
      /\ json_loads(cleaned_content).ok )
    => /\ exc = "none"
       /\ (\E n \in 1..Len(Emitted) : IsError(Emitted[n]))
          # ( /\ \E n \in 1..Len(Emitted) : Emitted[n].w = "header"
              /\ \E n \in 1..Len(Emitted) : IsRawJsonView(Emitted[n]) )

====
